---- MODULE Spec2Model ----
(***************************************************************************)
(* RepositoryService.createRepository (services/repository.service.js):   *)
(* the pre-checks and the ordered write cascade that imports one          *)
(* repository's extracted history into the relational store.              *)
(*                                                                         *)
(* One invocation of createRepository is a process c \in Calls.  Every    *)
(* `await` of a store, registry or metadata call is one action: the       *)
(* action is the awaited call together with the synchronous code that     *)
(* follows it up to the next await.  Strings the code cuts apart (file    *)
(* names and paths) are sequences of one-character strings; all other     *)
(* strings are atoms.                                                     *)
(***************************************************************************)
EXTENDS Integers, Sequences, FiniteSets, TLC

VARIABLES
    db,       \* the relational store: one append-only sequence of rows per table
    pc,       \* pc[c]: the await createRepository call c is suspended at
    req,      \* req[c]: the arguments (repoData, token) of call c
    loc,      \* loc[c]: the local constants and loop positions of call c
    outcome,  \* outcome[c]: what call c returned, or that it threw
    io,       \* io[c]: how many store creates, repoInfo and getByExt calls c made
    after,    \* after[c]: the calls that had already ended when c was invoked
    mode      \* "single": one invocation; "pair": two interleaved invocations;
              \* "user": two interleaved invocations of UserService

vars == <<db, pc, req, loc, outcome, io, after, mode>>

Calls == {1, 2}

-----------------------------------------------------------------------------
(* Bounds of the explored inputs. *)
MaxLangs == 2
MaxBranches == 2
MaxCommits == 2
MaxFiles == 2
MaxMods == 2

SeqsUpTo(S, n) == UNION {[1..k -> S] : k \in 0..n}

\* Index lists into a pool, non-decreasing (the order of distinct entries of an
\* extracted list is immaterial to the cascade; repetitions are kept).
IdxLists(n, k) ==
    {s \in SeqsUpTo(1..n, k) : \A i \in 1..(Len(s) - 1) : s[i] <= s[i + 1]}

\* Strictly increasing index lists (no repetition).
IdxSets(n, k) ==
    {s \in SeqsUpTo(1..n, k) : \A i \in 1..(Len(s) - 1) : s[i] < s[i + 1]}

Pick(pool, s) == [i \in DOMAIN s |-> pool[s[i]]]

Range(s) == {s[i] : i \in DOMAIN s}

-----------------------------------------------------------------------------
(* JavaScript string primitives used by the cascade, 0-based as in JS. *)

\* String.prototype.lastIndexOf(ch): the last 0-based position of ch, or -1.
LastIndexOf(s, ch) ==
    LET hits == {i \in 1..Len(s) : s[i] = ch}
    IN  IF hits = {} THEN -1
        ELSE (CHOOSE i \in hits : \A k \in hits : k <= i) - 1

\* String.prototype.indexOf(ch): the first 0-based position of ch, or -1.
IndexOf(s, ch) ==
    LET hits == {i \in 1..Len(s) : s[i] = ch}
    IN  IF hits = {} THEN -1
        ELSE (CHOOSE i \in hits : \A k \in hits : i <= k) - 1

\* String.prototype.slice(k) for 0 <= k: the characters from 0-based position k on.
Slice(s, k) == SubSeq(s, k + 1, Len(s))

-----------------------------------------------------------------------------
(* The external collaborators' data. *)

\* Error types of lib/constants/errors.js that createRepository uses.
BAD_REQUEST == "BAD_REQUEST"
NOT_FOUND == "NOT_FOUND"

\* The sentinel size of a file deleted before the import.
NA == "N/A"

\* Language.getByExt's "no language" result, and an absent reference.
NoLanguage == "null"

\* LanguageRegistry: the languages that exist, and the extension of each.
KnownLanguages == {"JavaScript"}
ExtensionOf == [l \in KnownLanguages |-> <<"j", "s">>]

\* Repositories uploaded to the backend (the system of record of repoInfo).
UpstreamRepos == {"demo", "other"}

\* Auth.validateToken: the user a token resolves to.
TokenUsers == [t \in {"tok1", "tok2"} |-> IF t = "tok1" THEN "u1" ELSE "u2"]

\* Paths and names of the extracted files.
PathJs == <<"s", "/", "t", "/", "a", ".", "b", ".", "j", "s">>
PathPy == <<"u", ".", "p", "y">>
PathBare == <<"j", "s">>

FilePool ==
    << [name |-> <<"a", ".", "b", ".", "j", "s">>, size |-> "2048", path |-> PathJs],
       [name |-> PathPy, size |-> "512", path |-> PathPy],
       [name |-> PathBare, size |-> "64", path |-> PathBare] >>

Hashes == <<"h1", "h2", "h3", "h4">>

ModPool ==
    << [type |-> "A", file |-> PathJs, commit |-> "h1"],
       [type |-> "M", file |-> PathJs, commit |-> "h2"],
       [type |-> "A", file |-> PathPy, commit |-> "h1"],
       [type |-> "D", file |-> PathPy, commit |-> "h2"],
       [type |-> "A", file |-> PathBare, commit |-> "h1"],
       [type |-> "D", file |-> PathBare, commit |-> "h2"] >>

BranchPool ==
    << [name |-> "main", type |-> "local"],
       [name |-> "main", type |-> "remote"],
       [name |-> "dev", type |-> "local"] >>

Authors == {"alice", "bob"}
ContributorLists == {<<"alice">>, <<"alice", "bob">>}
DeclaredBranches == {<<"main">>, <<"main", "dev">>}

\* The k-th extracted commit: hashes are unique, the rest varies.
CommitOf(k, author, branches) ==
    [title |-> "t", content |-> "c", hash |-> Hashes[k], author |-> author,
     created_at |-> k, branches |-> branches]

CommitLists ==
    UNION {
        {[k \in 1..n |-> CommitOf(k, a[k], b[k])] :
            a \in [1..n -> Authors], b \in [1..n -> DeclaredBranches]}
        : n \in 0..MaxCommits}

BranchLists == {Pick(BranchPool, s) : s \in IdxSets(Len(BranchPool), MaxBranches)}
FileLists == {Pick(FilePool, s) : s \in IdxLists(Len(FilePool), MaxFiles)}
ModLists == {Pick(ModPool, s) : s \in IdxLists(Len(ModPool), MaxMods)}

Extraction(commits, files, branches, contributors, modifications) ==
    [commits |-> commits, files |-> files, branches |-> branches,
     contributors |-> contributors, modifications |-> modifications]

NoExtraction == Extraction(<<>>, <<>>, <<>>, <<>>, <<>>)

\* Extractions whose history (contributors, branches, commits) varies in full
\* over a fixed snapshot of one file with one modification.
HistoryExtractions ==
    {Extraction(cs, <<FilePool[1]>>, bs, ns, <<ModPool[1]>>) :
        cs \in CommitLists, bs \in BranchLists, ns \in ContributorLists}

\* Extractions whose snapshot (files, modifications) varies in full over a
\* fixed history of one or two commits by one contributor on one branch.
SnapshotExtractions ==
    {Extraction([k \in 1..n |-> CommitOf(k, "alice", <<"main">>)], fs,
                <<BranchPool[1]>>, <<"alice">>, ms) :
        n \in 1..2, fs \in FileLists, ms \in ModLists}

\* The extraction both calls of a pair may receive.
PairExtractions ==
    {Extraction(<<CommitOf(1, "alice", <<"main">>)>>, <<FilePool[1]>>,
                <<BranchPool[1]>>, <<"alice">>, <<ModPool[1], ModPool[3]>>)}

Request(name, description, languages, token) ==
    [name |-> name, description |-> description, languages |-> languages,
     token |-> token]

NoRequest == Request("", "", <<>>, "")

\* The request whose cascade is explored over every extraction.
BaseRequest == Request("demo", "a demo", <<"JavaScript">>, "tok1")

SingleRequests ==
    {Request(n, d, ls, t) :
        n \in {"demo", "ghost", ""}, d \in {"a demo", "#malformed#"},
        ls \in SeqsUpTo({"JavaScript", "Cobol", "Fortran", ""}, MaxLangs),
        t \in {"tok1", "bad"}}

PairRequests ==
    {Request(n, "a demo", ls, t) :
        n \in {"demo", "other", "ghost"},
        ls \in {<<"JavaScript">>, <<"Cobol">>},
        t \in {"tok1", "tok2", "bad"}}

Requests(m) == IF m = "single" THEN SingleRequests ELSE PairRequests

\* repoInfo(name): what the metadata source may produce for a request.
Extractions(m, r) ==
    IF m = "pair" THEN PairExtractions
    ELSE IF r = BaseRequest THEN HistoryExtractions \cup SnapshotExtractions
    ELSE {Extraction(<<CommitOf(1, "alice", <<"main">>)>>, <<FilePool[1]>>,
                     <<BranchPool[1]>>, <<"alice">>, <<ModPool[1]>>)}

-----------------------------------------------------------------------------
(* PersistenceStore: the models' save and read operations. *)

EmptyDb ==
    [Repository |-> <<>>, Repository_Language |-> <<>>, Contributor |-> <<>>,
     Branch |-> <<>>, Commit |-> <<>>, Commit_Branch |-> <<>>, File |-> <<>>,
     Modification |-> <<>>, User |-> <<>>]

Tables == DOMAIN EmptyDb

\* <Model>.save(data) on a table with a store-assigned id: the row created.
NewRow(d, table, data) ==
    [f \in (DOMAIN data) \cup {"id"} |->
        IF f = "id" THEN Len(d[table]) + 1 ELSE data[f]]

\* The store after <Model>.save created `row` in `table`.
Insert(d, table, row) == [d EXCEPT ![table] = Append(@, row)]

Rows(d, table) == Range(d[table])

\* Repository.checkIfUserHasRepo(name, user): the user owns a repository so named.
CheckIfUserHasRepo(d, name, user) ==
    \E r \in Rows(d, "Repository") : r.name = name /\ r.user_owner = user

\* Repository.checkIfExistsInBackend(name).
CheckIfExistsInBackend(name) == name \in UpstreamRepos

\* Language.checkIfExists(lang).
LanguageCheckIfExists(lang) == lang \in KnownLanguages

\* Language.getByExt(ext): the language of an extension, or none.
LanguageGetByExt(ext) ==
    IF \E l \in KnownLanguages : ExtensionOf[l] = ext
    THEN CHOOSE l \in KnownLanguages : ExtensionOf[l] = ext
    ELSE NoLanguage

-----------------------------------------------------------------------------
(* ValidationGate: the four validators and validationHandler. *)

Valid(data) == [error |-> "", data |-> data]
Invalid(field) == [error |-> field, data |-> ""]

ValidateRepoName(name) == IF name = "" THEN Invalid("name") ELSE Valid("")

ValidateToken(token) ==
    IF token \in DOMAIN TokenUsers THEN Valid(TokenUsers[token])
    ELSE Invalid("token")

ValidateDescription(description) ==
    IF description = "#malformed#" THEN Invalid("description") ELSE Valid("")

ValidateLanguages(languages) ==
    IF \E i \in DOMAIN languages : languages[i] = "" THEN Invalid("languages")
    ELSE Valid("")

\* validationHandler(results): the first error of the list if there is one,
\* else the data some validator resolved.
ValidationHandler(results) ==
    LET bad == {i \in DOMAIN results : results[i].error # ""}
        got == {i \in DOMAIN results : results[i].data # ""}
    IN  IF bad # {}
        THEN Invalid(results[CHOOSE i \in bad : \A k \in bad : i <= k].error)
        ELSE IF got # {}
        THEN Valid(results[CHOOSE i \in got : \A k \in got : i <= k].data)
        ELSE Valid("")

\* Validation with the description's validator listed first.
ValidationDescriptionFirst(r) ==
    ValidationHandler(<<ValidateDescription(r.description),
                        ValidateRepoName(r.name), ValidateToken(r.token),
                        ValidateLanguages(r.languages)>>)

\* Lines 33-38: the validators in the order the call lists them.
Validation(r) ==
    ValidationHandler(<<ValidateRepoName(r.name), ValidateToken(r.token),
                        ValidateDescription(r.description),
                        ValidateLanguages(r.languages)>>)

-----------------------------------------------------------------------------
(* Outcomes of a call. *)

NoOutcome == [kind |-> "none", type |-> "", message |-> "", subject |-> ""]

\* return { success: true, error: null, data: null }
Success == [kind |-> "success", type |-> "", message |-> "", subject |-> ""]

\* return new ServiceError(message, type); subject is what the message interpolates.
ServiceError(message, subject, type) ==
    [kind |-> "error", type |-> type, message |-> message, subject |-> subject]

\* The async function rejected: an exception nobody in createRepository catches.
Threw(what) == [kind |-> "threw", type |-> "", message |-> what, subject |-> ""]

-----------------------------------------------------------------------------
(* The locals of one call. *)

NoRow == [id |-> 0]

InitLoc ==
    [owner |-> "",                       \* validation.data
     x |-> NoExtraction,                 \* { commits, files, branches, ... }
     repoSaved |-> NoRow,
     contributorsSaved |-> <<>>,
     branchesSaved |-> <<>>,
     commitsSaved |-> <<>>,
     filesSaved |-> <<>>,
     modificationsSaved |-> <<>>,
     deletedFilesModifications |-> <<>>,
     i |-> 1,                            \* position of the current for...of
     j |-> 1,                            \* position of the nested for...of
     commitSaved |-> NoRow,
     commitBranchesSaved |-> <<>>,
     language_id |-> NoLanguage,
     fileSaved |-> NoRow,
     fileModifications |-> <<>>,
     commit |-> 0]

NoIo == [creates |-> 0, repoInfo |-> 0, getByExt |-> 0]

Init ==
    /\ mode = "single"
    /\ db = EmptyDb
    /\ pc = [c \in Calls |-> "idle"]
    /\ req = [c \in Calls |-> NoRequest]
    /\ loc = [c \in Calls |-> InitLoc]
    /\ outcome = [c \in Calls |-> NoOutcome]
    /\ io = [c \in Calls |-> NoIo]
    /\ after = [c \in Calls |-> {}]

InitPair ==
    /\ mode = "pair"
    /\ db = EmptyDb
    /\ pc = [c \in Calls |-> "idle"]
    /\ req = [c \in Calls |-> NoRequest]
    /\ loc = [c \in Calls |-> InitLoc]
    /\ outcome = [c \in Calls |-> NoOutcome]
    /\ io = [c \in Calls |-> NoIo]
    /\ after = [c \in Calls |-> {}]

-----------------------------------------------------------------------------
(* How a call ends. *)

\* The call returns `result` without touching the store.
Return(c, result) ==
    /\ pc' = [pc EXCEPT ![c] = "done"]
    /\ outcome' = [outcome EXCEPT ![c] = result]

\* The call is invoked with some request.  A lone call is call 1.
Invoke(c) ==
    /\ pc[c] = "idle"
    /\ mode = "pair" \/ c = 1
    /\ \E r \in Requests(mode) : req' = [req EXCEPT ![c] = r]
    /\ pc' = [pc EXCEPT ![c] = "validate"]
    /\ after' = [after EXCEPT ![c] = {d \in Calls : pc[d] = "done"}]
    /\ UNCHANGED <<db, loc, outcome, io, mode>>

\* Lines 33-40.
Validate(c) ==
    /\ pc[c] = "validate"
    /\ LET validation == Validation(req[c])
       IN  IF validation.error # ""
           THEN /\ Return(c, ServiceError(validation.error, "", BAD_REQUEST))
                /\ UNCHANGED loc
           ELSE /\ loc' = [loc EXCEPT ![c].owner = validation.data]
                /\ pc' = [pc EXCEPT ![c] = "existsBackend"]
                /\ UNCHANGED outcome
    /\ UNCHANGED <<db, req, io, after, mode>>

\* CheckBackend with Repository.save (lines 72-76) hoisted above the check.
CheckBackendAfterSave(c) ==
    /\ pc[c] = "existsBackend"
    /\ LET repoSaved == [id |-> Len(db.Repository) + 1, name |-> req[c].name,
                         description |-> req[c].description,
                         user_owner |-> loc[c].owner]
       IN  /\ db' = [db EXCEPT !.Repository = Append(@, repoSaved)]
           /\ loc' = [loc EXCEPT ![c].repoSaved = repoSaved]
    /\ io' = [io EXCEPT ![c].creates = @ + 1]
    /\ IF ~CheckIfExistsInBackend(req[c].name)
       THEN Return(c, ServiceError("Repositorio no existe en el servidor!", "",
                                   NOT_FOUND))
       ELSE /\ pc' = [pc EXCEPT ![c] = "userHasRepo"]
            /\ UNCHANGED outcome
    /\ UNCHANGED <<req, after, mode>>

\* Lines 42-47.
CheckBackend(c) ==
    /\ pc[c] = "existsBackend"
    /\ IF ~CheckIfExistsInBackend(req[c].name)
       THEN Return(c, ServiceError("Repositorio no existe en el servidor!", "",
                                   NOT_FOUND))
       ELSE /\ pc' = [pc EXCEPT ![c] = "userHasRepo"]
            /\ UNCHANGED outcome
    /\ UNCHANGED <<db, req, loc, io, after, mode>>

\* The type of the error returned when the user already owns the repository.
UserHasRepoError ==
    ServiceError("Usuario ya tiene el repositorio!", "", BAD_REQUEST)

\* UserHasRepo asked with the token in place of the user it resolves to.
UserHasRepoByToken(c) == CheckIfUserHasRepo(db, req[c].name, req[c].token)

\* Lines 49-52: Repository.checkIfUserHasRepo(name, validation.data).
UserHasRepo(c) == CheckIfUserHasRepo(db, req[c].name, loc[c].owner)

\* Lines 49-57, and the entry of the loop of line 59.
CheckUserHasRepo(c) ==
    /\ pc[c] = "userHasRepo"
    /\ IF UserHasRepo(c)
       THEN /\ Return(c, UserHasRepoError)
            /\ UNCHANGED loc
       ELSE /\ pc' = [pc EXCEPT ![c] =
                        IF Len(req[c].languages) > 0 THEN "checkLanguage"
                        ELSE "repoInfo"]
            /\ loc' = [loc EXCEPT ![c].i = 1]
            /\ UNCHANGED outcome
    /\ UNCHANGED <<db, req, io, after, mode>>

\* CheckLanguage that skips a language that does not exist and goes on.
CheckLanguageSkipping(c) ==
    /\ pc[c] = "checkLanguage"
    /\ pc' = [pc EXCEPT ![c] =
                 IF loc[c].i < Len(req[c].languages)
                 THEN "checkLanguage" ELSE "repoInfo"]
    /\ loc' = [loc EXCEPT ![c].i = @ + 1]
    /\ UNCHANGED <<db, req, outcome, io, after, mode>>

\* Lines 59-66: one iteration.
CheckLanguage(c) ==
    /\ pc[c] = "checkLanguage"
    /\ LET lang == req[c].languages[loc[c].i]
       IN  IF ~LanguageCheckIfExists(lang)
           THEN /\ Return(c, ServiceError("Lenguaje no existe en la base de datos!",
                                          lang, NOT_FOUND))
                /\ UNCHANGED loc
           ELSE /\ pc' = [pc EXCEPT ![c] =
                            IF loc[c].i < Len(req[c].languages)
                            THEN "checkLanguage" ELSE "repoInfo"]
                /\ loc' = [loc EXCEPT ![c].i = @ + 1]
                /\ UNCHANGED outcome
    /\ UNCHANGED <<db, req, io, after, mode>>

\* GetRepoInfo that asks the metadata source a second time before going on.
GetRepoInfoRetried(c) ==
    /\ pc[c] = "repoInfo"
    /\ \E x \in Extractions(mode, req[c]) :
           loc' = [loc EXCEPT ![c].x = x, ![c].i = 1]
    /\ io' = [io EXCEPT ![c].repoInfo = @ + 1]
    /\ pc' = [pc EXCEPT ![c] =
                 IF io[c].repoInfo = 0 THEN "repoInfo" ELSE "saveRepository"]
    /\ UNCHANGED <<db, req, outcome, after, mode>>

\* Lines 68-69.
GetRepoInfo(c) ==
    /\ pc[c] = "repoInfo"
    /\ \E x \in Extractions(mode, req[c]) :
           loc' = [loc EXCEPT ![c].x = x, ![c].i = 1]
    /\ io' = [io EXCEPT ![c].repoInfo = @ + 1]
    /\ pc' = [pc EXCEPT ![c] = "saveRepository"]
    /\ UNCHANGED <<db, req, outcome, after, mode>>

-----------------------------------------------------------------------------
(* The write cascade: what each step computes. *)

\* Array.prototype.find: the first of the positions that pass the test, 0
\* (for undefined) when none does.
Find(hits) ==
    IF hits = {} THEN 0 ELSE CHOOSE i \in hits : \A k \in hits : i <= k

\* Lines 72-76.
RepositoryData(r, owner) ==
    [name |-> r.name, description |-> r.description, user_owner |-> owner]

\* Line 80.
RepositoryLanguageRow(repo, language) == [repo |-> repo, language |-> language]

\* Lines 87-90.
ContributorData(contributor, repo) == [name |-> contributor, repo |-> repo]

\* Lines 98-102.
BranchData(branch, repo) ==
    [name |-> branch.name, type |-> branch.type, repo |-> repo]

\* FindContributor that takes the first saved contributor, whatever its name.
FindContributorAny(contributorsSaved, commit) ==
    Find(DOMAIN contributorsSaved)

\* Lines 109-111: contributorsSaved.find((c) => c.name == commit.author).
FindContributor(contributorsSaved, commit) ==
    Find({i \in DOMAIN contributorsSaved :
             contributorsSaved[i].name = commit.author})

\* Lines 112-119.
CommitData(commit, contributor, repo) ==
    [title |-> commit.title, content |-> commit.content, hash |-> commit.hash,
     author |-> contributor, created_at |-> commit.created_at, repo |-> repo]

\* CommitBranchesSaved with find in place of filter: the first match alone.
CommitBranchesSavedFirst(branchesSaved, commit) ==
    LET k == Find({i \in DOMAIN branchesSaved :
                      branchesSaved[i].name \in Range(commit.branches)})
    IN  IF k = 0 THEN <<>> ELSE <<branchesSaved[k]>>

\* CommitBranchesSaved read from the store's Branch table, whichever call
\* saved the branch.
CommitBranchesSavedOfStore(branchesSaved, commit) ==
    SelectSeq(db.Branch, LAMBDA b : b.name \in Range(commit.branches))

\* Lines 123-125: branchesSaved.filter((b) => commit.branches.includes(b.name)).
CommitBranchesSaved(branchesSaved, commit) ==
    SelectSeq(branchesSaved, LAMBDA b : b.name \in Range(commit.branches))

\* Line 129.
CommitBranchRow(commit, branch) == [commit |-> commit, branch |-> branch]

\* Ext with indexOf in place of lastIndexOf: cut after the first '.'.
ExtAfterFirstDot(file) == Slice(file.name, IndexOf(file.name, ".") + 1)

\* Line 138: file.name.slice(file.name.lastIndexOf(".") + 1).
Ext(file) == Slice(file.name, LastIndexOf(file.name, ".") + 1)

\* Lines 141-147.
FileData(file, repo, language_id) ==
    [name |-> file.name, size |-> file.size, path |-> file.path, repo |-> repo,
     language |-> language_id]

\* FileModifications with find in place of filter: the first match alone.
FileModificationsFirst(modifications, file) ==
    LET k == Find({i \in DOMAIN modifications :
                      modifications[i].file = file.path})
    IN  IF k = 0 THEN <<>> ELSE <<modifications[k]>>

\* Lines 151-153: modifications.filter((m) => m.file == file.path).
FileModifications(modifications, file) ==
    SelectSeq(modifications, LAMBDA m : m.file = file.path)

\* Lines 156-158 and 173-175: commitsSaved.find((c) => c.hash == m.commit).
FindCommit(commitsSaved, modification) ==
    Find({i \in DOMAIN commitsSaved :
             commitsSaved[i].hash = modification.commit})

\* ModificationData with the commit's id put where the file's id belongs.
ModificationDataCommitAsFile(modification, commit, file) ==
    [type |-> modification.type, commit |-> commit, file |-> commit]

\* Lines 160-164 and 189-193.
ModificationData(modification, commit, file) ==
    [type |-> modification.type, commit |-> commit, file |-> file]

\* Lines 169-171:
\* modifications.filter((m) => !filesSaved.some((f) => f.path == m.file)).
DeletedFilesModifications(modifications, filesSaved) ==
    SelectSeq(modifications,
              LAMBDA m : ~\E i \in DOMAIN filesSaved : filesSaved[i].path = m.file)

\* FileName with indexOf in place of lastIndexOf: cut after the first '/'.
FileNameAfterFirstSlash(modification) ==
    Slice(modification.file, IndexOf(modification.file, "/") + 1)

\* Lines 177-179: modification.file.slice(modification.file.lastIndexOf("/") + 1).
FileName(modification) ==
    Slice(modification.file, LastIndexOf(modification.file, "/") + 1)

\* Lines 181-186: the data of a deleted file; no language is given.
DeletedFileData(modification, repo) ==
    [name |-> FileName(modification), size |-> NA, path |-> modification.file,
     repo |-> repo]

\* File.save(data): the row created; a language that is not given is stored as none.
FileRow(d, data) ==
    NewRow(d, "File",
           [f \in (DOMAIN data) \cup {"language"} |->
               IF f \in DOMAIN data THEN data[f] ELSE NoLanguage])

-----------------------------------------------------------------------------
(* The write cascade: its loops. *)

\* Stages with the loop over the commits ahead of the loop over the branches.
StagesCommitsBeforeBranches ==
    <<"saveRepoLanguage", "saveContributor", "saveCommit", "saveBranch",
      "getByExt", "saveDeletedFile">>

\* The for...of loops of lines 79, 85, 96, 108, 136 and 172, by the await
\* each starts with.
Stages ==
    <<"saveRepoLanguage", "saveContributor", "saveBranch", "saveCommit",
      "getByExt", "saveDeletedFile">>

\* The list the k-th loop runs over.
StageList(k, l, r) ==
    CASE Stages[k] = "saveRepoLanguage" -> r.languages
      [] Stages[k] = "saveContributor" -> l.x.contributors
      [] Stages[k] = "saveBranch" -> l.x.branches
      [] Stages[k] = "saveCommit" -> l.x.commits
      [] Stages[k] = "getByExt" -> l.x.files
      [] Stages[k] = "saveDeletedFile" -> l.deletedFilesModifications

\* The block-scoped constants of a loop body are gone when the loop is left.
LeaveLoop(l) ==
    [l EXCEPT !.i = 1, !.j = 1, !.commitSaved = NoRow,
              !.commitBranchesSaved = <<>>, !.language_id = NoLanguage,
              !.fileSaved = NoRow, !.fileModifications = <<>>, !.commit = 0]

\* Control reaches the k-th loop with locals l: the await the call suspends
\* at next and its locals, skipping the loops over empty lists.  Lines 169-171
\* run on the way to the last loop; after it comes the return of line 196.
RECURSIVE Enter(_, _, _)
Enter(k, l, r) ==
    IF k > Len(Stages) THEN <<"done", LeaveLoop(l)>>
    ELSE LET l1 == IF Stages[k] = "saveDeletedFile"
                   THEN [LeaveLoop(l) EXCEPT !.deletedFilesModifications =
                            DeletedFilesModifications(l.x.modifications,
                                                      l.filesSaved)]
                   ELSE LeaveLoop(l)
         IN  IF Len(StageList(k, l1, r)) > 0 THEN <<Stages[k], l1>>
             ELSE Enter(k + 1, l1, r)

\* Call c goes on to the k-th loop with locals l.
Go(c, k, l) ==
    LET e == Enter(k, l, req[c])
    IN  /\ pc' = [pc EXCEPT ![c] = e[1]]
        /\ loc' = [loc EXCEPT ![c] = e[2]]
        /\ outcome' = IF e[1] = "done" THEN [outcome EXCEPT ![c] = Success]
                      ELSE outcome

\* Call c ended an iteration of the k-th loop with locals l.
Advance(c, k, l) ==
    IF l.i < Len(StageList(k, l, req[c]))
    THEN /\ pc' = [pc EXCEPT ![c] = Stages[k]]
         /\ loc' = [loc EXCEPT ![c] = [l EXCEPT !.i = @ + 1, !.j = 1]]
         /\ UNCHANGED outcome
    ELSE Go(c, k + 1, l)

\* An exception leaves createRepository: nothing catches it, nothing is undone.
Throw(c, what) ==
    /\ pc' = [pc EXCEPT ![c] = "done"]
    /\ outcome' = [outcome EXCEPT ![c] = Threw(what)]

\* One more store create by call c.
Created(c) == io' = [io EXCEPT ![c].creates = @ + 1]

StageOf(name) == CHOOSE k \in DOMAIN Stages : Stages[k] = name

-----------------------------------------------------------------------------
(* The write cascade: one action per await. *)

\* Lines 71-76, and the entry of the loop of line 79.
SaveRepository(c) ==
    /\ pc[c] = "saveRepository"
    /\ LET repoSaved == NewRow(db, "Repository",
                               RepositoryData(req[c], loc[c].owner))
       IN  /\ db' = Insert(db, "Repository", repoSaved)
           /\ Go(c, 1, [loc[c] EXCEPT !.repoSaved = repoSaved])
    /\ Created(c)
    /\ UNCHANGED <<req, after, mode>>

\* Lines 79-81: one iteration.
SaveRepoLanguage(c) ==
    /\ pc[c] = "saveRepoLanguage"
    /\ LET l == loc[c]
           language == req[c].languages[l.i]
       IN  /\ db' = Insert(db, "Repository_Language",
                           RepositoryLanguageRow(l.repoSaved.id, language))
           /\ Advance(c, StageOf("saveRepoLanguage"), l)
    /\ Created(c)
    /\ UNCHANGED <<req, after, mode>>

\* Lines 84-92: one iteration.
SaveContributor(c) ==
    /\ pc[c] = "saveContributor"
    /\ LET l == loc[c]
           row == NewRow(db, "Contributor",
                         ContributorData(l.x.contributors[l.i], l.repoSaved.id))
       IN  /\ db' = Insert(db, "Contributor", row)
           /\ Advance(c, StageOf("saveContributor"),
                      [l EXCEPT !.contributorsSaved = Append(@, row)])
    /\ Created(c)
    /\ UNCHANGED <<req, after, mode>>

\* Lines 95-104: one iteration.
SaveBranch(c) ==
    /\ pc[c] = "saveBranch"
    /\ LET l == loc[c]
           row == NewRow(db, "Branch",
                         BranchData(l.x.branches[l.i], l.repoSaved.id))
       IN  /\ db' = Insert(db, "Branch", row)
           /\ Advance(c, StageOf("saveBranch"),
                      [l EXCEPT !.branchesSaved = Append(@, row)])
    /\ Created(c)
    /\ UNCHANGED <<req, after, mode>>

\* Lines 108-125: the author's lookup, Commit.save and the branches to relate.
\* `.id` of the undefined that find returns for an unknown author throws.
SaveCommit(c) ==
    /\ pc[c] = "saveCommit"
    /\ LET l == loc[c]
           commit == l.x.commits[l.i]
           k == FindContributor(l.contributorsSaved, commit)
       IN  IF k = 0
           THEN /\ Throw(c, "TypeError")
                /\ UNCHANGED <<db, loc, io>>
           ELSE LET commitSaved ==
                        NewRow(db, "Commit",
                               CommitData(commit, l.contributorsSaved[k].id,
                                          l.repoSaved.id))
                    commitBranchesSaved ==
                        CommitBranchesSaved(l.branchesSaved, commit)
                    l1 == [l EXCEPT !.commitsSaved = Append(@, commitSaved),
                                    !.commitSaved = commitSaved,
                                    !.commitBranchesSaved = commitBranchesSaved,
                                    !.j = 1]
                IN  /\ db' = Insert(db, "Commit", commitSaved)
                    /\ Created(c)
                    /\ IF Len(commitBranchesSaved) > 0
                       THEN /\ pc' = [pc EXCEPT ![c] = "saveCommitBranch"]
                            /\ loc' = [loc EXCEPT ![c] = l1]
                            /\ UNCHANGED outcome
                       ELSE Advance(c, StageOf("saveCommit"), l1)
    /\ UNCHANGED <<req, after, mode>>

\* Lines 127-130: one iteration.
SaveCommitBranch(c) ==
    /\ pc[c] = "saveCommitBranch"
    /\ LET l == loc[c]
       IN  /\ db' = Insert(db, "Commit_Branch",
                           CommitBranchRow(l.commitSaved.id,
                                           l.commitBranchesSaved[l.j].id))
           /\ IF l.j < Len(l.commitBranchesSaved)
              THEN /\ loc' = [loc EXCEPT ![c].j = @ + 1]
                   /\ UNCHANGED <<pc, outcome>>
              ELSE Advance(c, StageOf("saveCommit"), l)
    /\ Created(c)
    /\ UNCHANGED <<req, after, mode>>

\* Lines 136-139.
GetByExt(c) ==
    /\ pc[c] = "getByExt"
    /\ LET file == loc[c].x.files[loc[c].i]
       IN  loc' = [loc EXCEPT ![c].language_id = LanguageGetByExt(Ext(file))]
    /\ io' = [io EXCEPT ![c].getByExt = @ + 1]
    /\ pc' = [pc EXCEPT ![c] = "saveFile"]
    /\ UNCHANGED <<db, req, outcome, after, mode>>

\* Lines 141-153: File.save and the modifications of the file.
SaveFile(c) ==
    /\ pc[c] = "saveFile"
    /\ LET l == loc[c]
           file == l.x.files[l.i]
           fileSaved == FileRow(db, FileData(file, l.repoSaved.id, l.language_id))
           fileModifications == FileModifications(l.x.modifications, file)
           l1 == [l EXCEPT !.filesSaved = Append(@, fileSaved),
                           !.fileSaved = fileSaved,
                           !.fileModifications = fileModifications,
                           !.j = 1]
       IN  /\ db' = Insert(db, "File", fileSaved)
           /\ IF Len(fileModifications) > 0
              THEN /\ pc' = [pc EXCEPT ![c] = "saveModification"]
                   /\ loc' = [loc EXCEPT ![c] = l1]
                   /\ UNCHANGED outcome
              ELSE Advance(c, StageOf("getByExt"), l1)
    /\ Created(c)
    /\ UNCHANGED <<req, after, mode>>

\* Lines 155-166: one iteration.  `.id` of the undefined that find returns for
\* an unknown commit hash throws.
SaveModification(c) ==
    /\ pc[c] = "saveModification"
    /\ LET l == loc[c]
           fileModification == l.fileModifications[l.j]
           k == FindCommit(l.commitsSaved, fileModification)
       IN  IF k = 0
           THEN /\ Throw(c, "TypeError")
                /\ UNCHANGED <<db, loc, io>>
           ELSE LET row == NewRow(db, "Modification",
                                  ModificationData(fileModification,
                                                   l.commitsSaved[k].id,
                                                   l.fileSaved.id))
                    l1 == [l EXCEPT !.modificationsSaved = Append(@, row)]
                IN  /\ db' = Insert(db, "Modification", row)
                    /\ Created(c)
                    /\ IF l.j < Len(l.fileModifications)
                       THEN /\ loc' = [loc EXCEPT ![c] = [l1 EXCEPT !.j = @ + 1]]
                            /\ UNCHANGED <<pc, outcome>>
                       ELSE Advance(c, StageOf("getByExt"), l1)
    /\ UNCHANGED <<req, after, mode>>

\* Lines 172-186: the commit's lookup and File.save of the deleted file.
SaveDeletedFile(c) ==
    /\ pc[c] = "saveDeletedFile"
    /\ LET l == loc[c]
           modification == l.deletedFilesModifications[l.i]
           k == FindCommit(l.commitsSaved, modification)
       IN  IF k = 0
           THEN /\ Throw(c, "TypeError")
                /\ UNCHANGED <<db, loc, io>>
           ELSE LET fileSaved ==
                        FileRow(db, DeletedFileData(modification, l.repoSaved.id))
                IN  /\ db' = Insert(db, "File", fileSaved)
                    /\ Created(c)
                    /\ loc' = [loc EXCEPT ![c].commit = l.commitsSaved[k].id,
                                          ![c].fileSaved = fileSaved]
                    /\ pc' = [pc EXCEPT ![c] = "saveDeletedModification"]
                    /\ UNCHANGED outcome
    /\ UNCHANGED <<req, after, mode>>

\* Lines 188-195, and the return of lines 196-200 after the last iteration.
SaveDeletedModification(c) ==
    /\ pc[c] = "saveDeletedModification"
    /\ LET l == loc[c]
           modification == l.deletedFilesModifications[l.i]
           row == NewRow(db, "Modification",
                         ModificationData(modification, l.commit, l.fileSaved.id))
       IN  /\ db' = Insert(db, "Modification", row)
           /\ Advance(c, StageOf("saveDeletedFile"),
                      [l EXCEPT !.modificationsSaved = Append(@, row)])
    /\ Created(c)
    /\ UNCHANGED <<req, after, mode>>

\* The awaits of the cascade that call the store.
StorePcs ==
    Range(Stages) \cup {"saveRepository", "saveCommitBranch", "saveFile",
                        "saveModification", "saveDeletedModification"}

\* The awaited store call rejects: the exception leaves createRepository.
StoreFails(c) ==
    /\ pc[c] \in StorePcs
    /\ Throw(c, "StoreError")
    /\ UNCHANGED <<db, req, loc, io, after, mode>>

Next ==
    \E c \in Calls :
        \/ Invoke(c)
        \/ Validate(c)
        \/ CheckBackend(c)
        \/ CheckUserHasRepo(c)
        \/ CheckLanguage(c)
        \/ GetRepoInfo(c)
        \/ SaveRepository(c)
        \/ SaveRepoLanguage(c)
        \/ SaveContributor(c)
        \/ SaveBranch(c)
        \/ SaveCommit(c)
        \/ SaveCommitBranch(c)
        \/ GetByExt(c)
        \/ SaveFile(c)
        \/ SaveModification(c)
        \/ SaveDeletedFile(c)
        \/ SaveDeletedModification(c)
        \/ StoreFails(c)

\* One createRepository call, over every request and extraction of the bounds.
Spec == Init /\ [][Next]_vars

\* Two createRepository calls whose awaits interleave.
SpecPair == InitPair /\ [][Next]_vars

-----------------------------------------------------------------------------
(* What the claims speak of. *)

Done(c) == pc[c] = "done"
Succeeded(c) == outcome[c].kind = "success"

\* The id of the Repository row call c created, 0 before it did.
RepoOf(c) == loc[c].repoSaved.id

RepositoriesOf(name, owner) ==
    {r \in Rows(db, "Repository") : r.name = name /\ r.user_owner = owner}
ContributorsOfRepo(R) == {k \in Rows(db, "Contributor") : k.repo = R}
BranchesOfRepo(R) == {b \in Rows(db, "Branch") : b.repo = R}
CommitsOfRepo(R) == {k \in Rows(db, "Commit") : k.repo = R}
FilesOfRepo(R) == {f \in Rows(db, "File") : f.repo = R}
ModificationsOfRepo(R) ==
    {m \in Rows(db, "Modification") :
        \E k \in CommitsOfRepo(R) : k.id = m.commit}

\* Every row of the store that belongs to repository R.
RowsOfRepo(R) ==
    {r \in Rows(db, "Repository") : r.id = R}
    \cup {r \in Rows(db, "Repository_Language") : r.repo = R}
    \cup ContributorsOfRepo(R) \cup BranchesOfRepo(R) \cup CommitsOfRepo(R)
    \cup {r \in Rows(db, "Commit_Branch") :
            \E k \in CommitsOfRepo(R) : k.id = r.commit}
    \cup FilesOfRepo(R) \cup ModificationsOfRepo(R)

\* The paths of the extracted modifications that no extracted file has.
OrphanPaths(x) ==
    {m.file : m \in Range(x.modifications)} \ {f.path : f \in Range(x.files)}

\* The File rows of call c's repository made from the extracted files list,
\* and those made for deleted files.
ListedFiles(c) ==
    {f \in FilesOfRepo(RepoOf(c)) :
        \E i \in DOMAIN loc[c].filesSaved : loc[c].filesSaved[i].id = f.id}
PlaceholderFiles(c) == FilesOfRepo(RepoOf(c)) \ ListedFiles(c)

\* The part of s after its last ch; all of s when ch does not occur in it.
AfterLast(s, ch) ==
    IF \A i \in DOMAIN s : s[i] # ch THEN s
    ELSE LET k == CHOOSE i \in DOMAIN s :
                      s[i] = ch /\ \A n \in DOMAIN s : n > i => s[n] # ch
         IN  [n \in 1..(Len(s) - k) |-> s[k + n]]

\* Calls c and d are for the same (name, owner) pair.
SamePair(c, d) ==
    /\ req[c].name = req[d].name
    /\ loc[c].owner = loc[d].owner

\* Call c went through every pre-check and no store call of it rejected.
RanCascade(c) ==
    /\ Done(c)
    /\ io[c].repoInfo = 1
    /\ outcome[c] # Threw("StoreError")

-----------------------------------------------------------------------------
\* C1: after a createRepository call that returned success, every Modification
\* of the repository references a File row of that same repository, and every
\* extracted modification whose path is absent from the extracted files list
\* has a Modification row that references a File row with its path.
C1_NoDanglingFile ==
    \A c \in Calls :
        Succeeded(c) =>
            /\ \A m \in ModificationsOfRepo(RepoOf(c)) :
                   \E f \in FilesOfRepo(RepoOf(c)) : f.id = m.file
            /\ \A i \in DOMAIN loc[c].x.modifications :
                   LET e == loc[c].x.modifications[i]
                   IN  e.file \in OrphanPaths(loc[c].x) =>
                           \E m \in ModificationsOfRepo(RepoOf(c)),
                              f \in FilesOfRepo(RepoOf(c)) :
                               /\ f.id = m.file
                               /\ f.path = e.file
                               /\ m.type = e.type

\* A successful import with a modification of a deleted path next to a
\* modification of a listed file.
C1_Witness ==
    \E c \in Calls :
        /\ Succeeded(c)
        /\ OrphanPaths(loc[c].x) # {}
        /\ Cardinality(ModificationsOfRepo(RepoOf(c))) >= 2
        /\ Cardinality(CommitsOfRepo(RepoOf(c))) = 2
        /\ \E m \in ModificationsOfRepo(RepoOf(c)) :
               \E f \in ListedFiles(c) : f.id = m.file

-----------------------------------------------------------------------------
\* C2: after a createRepository call that returned success, every path of the
\* extracted modifications that is absent from the extracted files list has
\* exactly one File row, and every Modification made for that path references
\* that row.
C2_OnePlaceholderPerPath ==
    \A c \in Calls :
        Succeeded(c) =>
            \A p \in OrphanPaths(loc[c].x) :
                /\ Cardinality({f \in FilesOfRepo(RepoOf(c)) : f.path = p}) = 1
                /\ \A m \in ModificationsOfRepo(RepoOf(c)) :
                       \A f, g \in FilesOfRepo(RepoOf(c)) :
                           (f.path = p /\ g.path = p /\ m.file = f.id) => g = f

-----------------------------------------------------------------------------
\* C3: once a createRepository call that created its Repository row has ended
\* without success, no row of that repository is left in the store.
C3_NoRowsAfterFailure ==
    \A c \in Calls :
        (Done(c) /\ ~Succeeded(c) /\ RepoOf(c) # 0) => RowsOfRepo(RepoOf(c)) = {}

-----------------------------------------------------------------------------
\* The first extracted commit whose author is no extracted contributor.
UnknownAuthorCommits(x) ==
    {i \in DOMAIN x.commits : x.commits[i].author \notin Range(x.contributors)}
FirstUnknownAuthor(x) ==
    x.commits[CHOOSE i \in UnknownAuthorCommits(x) :
                  \A k \in UnknownAuthorCommits(x) : i <= k].author

\* C4: a createRepository call whose extraction holds a commit by an author
\* that is no extracted contributor ends (no store call rejecting) with a
\* NOT_FOUND error value that names the author, and no row of the repository
\* is left in the store.
C4_UnknownAuthorIsNotFound ==
    \A c \in Calls :
        (RanCascade(c) /\ UnknownAuthorCommits(loc[c].x) # {}) =>
            /\ outcome[c].kind = "error"
            /\ outcome[c].type = NOT_FOUND
            /\ outcome[c].subject = FirstUnknownAuthor(loc[c].x)
            /\ RowsOfRepo(RepoOf(c)) = {}

-----------------------------------------------------------------------------
\* Call d was invoked after call c had returned success, for the same
\* (name, owner) pair, and has ended past validation and the upstream check.
SecondOfPair(c, d) ==
    /\ c # d
    /\ c \in after[d]
    /\ Succeeded(c)
    /\ Done(d)
    /\ Validation(req[d]).error = ""
    /\ CheckIfExistsInBackend(req[d].name)
    /\ SamePair(c, d)

-----------------------------------------------------------------------------
\* C6: of two createRepository calls for one (name, owner) pair, however
\* their awaits interleave, at most one returns success, and the store holds
\* at most one Repository row for the pair.
C6_AtMostOneSuccess ==
    /\ \A c, d \in Calls :
           (c # d /\ SamePair(c, d) /\ Succeeded(c)) => ~Succeeded(d)
    /\ \A r, q \in Rows(db, "Repository") :
           (r.name = q.name /\ r.user_owner = q.user_owner) => r = q

-----------------------------------------------------------------------------
\* The Commit_Branch rows of commit k, by their position in the table.
LinksOf(k) == {i \in DOMAIN db.Commit_Branch : db.Commit_Branch[i].commit = k.id}

\* The branch names the extraction declares for the commit of hash h.
DeclaredFor(x, h) ==
    UNION {Range(e.branches) : e \in {e \in Range(x.commits) : e.hash = h}}

\* C7: after a createRepository call that returned success, every extracted
\* commit has its Commit row, and the Commit_Branch rows of every Commit of
\* the repository link it to exactly the Branch rows of the repository whose
\* name the commit declares, one row per branch (same-named branches of
\* different types each get their row).
C7_CommitBranchesAreDeclared ==
    \A c \in Calls :
        Succeeded(c) =>
            /\ \A e \in Range(loc[c].x.commits) :
                   \E k \in CommitsOfRepo(RepoOf(c)) : k.hash = e.hash
            /\ \A k \in CommitsOfRepo(RepoOf(c)) :
                   LET declared == {b \in BranchesOfRepo(RepoOf(c)) :
                                       b.name \in DeclaredFor(loc[c].x, k.hash)}
                   IN  /\ {db.Commit_Branch[i].branch : i \in LinksOf(k)}
                            = {b.id : b \in declared}
                       /\ Cardinality(LinksOf(k)) = Cardinality(declared)

\* A successful import where one commit is linked to two branches of one name.
C7_Witness ==
    \E c \in Calls :
        /\ Succeeded(c)
        /\ \E k \in CommitsOfRepo(RepoOf(c)) :
               \E a, b \in BranchesOfRepo(RepoOf(c)) :
                   /\ a.name = b.name
                   /\ a.type # b.type
                   /\ {a.id, b.id} = {db.Commit_Branch[i].branch : i \in LinksOf(k)}

-----------------------------------------------------------------------------
\* C8: every File row made from the extracted files list whose name has a '.'
\* references the language the registry has for the part of the name after
\* its last '.', and no language when the registry has none for it.
C8_LanguageByExtension ==
    \A c \in Calls :
        \A f \in ListedFiles(c) :
            (\E i \in DOMAIN f.name : f.name[i] = ".") =>
                LET ext == AfterLast(f.name, ".")
                IN  /\ \A l \in KnownLanguages :
                           ExtensionOf[l] = ext => f.language = l
                    /\ (\A l \in KnownLanguages : ExtensionOf[l] # ext) =>
                           f.language = NoLanguage

\* A file of a known extension next to a file of an unknown one.
C8_Witness ==
    \E c \in Calls :
        /\ Succeeded(c)
        /\ \E f, g \in ListedFiles(c) :
               /\ f.language \in KnownLanguages
               /\ Len(AfterLast(f.name, ".")) < Len(f.name)
               /\ g.language = NoLanguage
               /\ Len(AfterLast(g.name, ".")) < Len(g.name)

-----------------------------------------------------------------------------
\* C9: every File row made for a deleted file has a path of the extracted
\* modifications that no extracted file has, the part of that path after its
\* last '/' as name (the whole path when it has no '/'), the sentinel size and
\* no language; and the registry is asked once per extracted file at most,
\* never for a deleted file.
C9_PlaceholderShape ==
    \A c \in Calls :
        /\ \A f \in PlaceholderFiles(c) :
               /\ f.path \in OrphanPaths(loc[c].x)
               /\ f.name = AfterLast(f.path, "/")
               /\ f.size = NA
               /\ f.language = NoLanguage
        /\ io[c].getByExt <= Len(loc[c].x.files)
        /\ pc[c] \in {"saveDeletedFile", "saveDeletedModification"} =>
               io[c].getByExt = Len(loc[c].x.files)

\* A successful import with a deleted file under directories and one at the root.
C9_Witness ==
    \E c \in Calls :
        /\ Succeeded(c)
        /\ \E f, g \in PlaceholderFiles(c) :
               /\ Len(f.name) < Len(f.path)
               /\ g.name = g.path
        /\ Len(loc[c].x.files) > 0

-----------------------------------------------------------------------------
\* The awaits of the pre-checks (lines 33-66).
PreCheckPcs == {"validate", "existsBackend", "userHasRepo", "checkLanguage"}

\* Call c takes the step.
Steps(c) == <<pc[c], loc[c], outcome[c], io[c]>>' # <<pc[c], loc[c], outcome[c], io[c]>>

\* C10: a createRepository call that returned an error value (each is a failed
\* pre-check: validation, upstream, ownership, language) has made no store
\* create, and no step of a call at a pre-check changes the store.
C10_PreChecksDoNotWrite ==
    /\ [](\A c \in Calls :
              outcome[c].kind = "error" => (io[c].creates = 0 /\ RepoOf(c) = 0))
    /\ [][\A c \in Calls :
              (pc[c] \in PreCheckPcs /\ Steps(c)) =>
                  (db' = db /\ io'[c].creates = 0)]_vars

\* A call has returned the ownership error, having created nothing, while the
\* store holds the rows of the call that succeeded before it.
C10_Witness ==
    \E c, d \in Calls :
        /\ Succeeded(c)
        /\ outcome[d].kind = "error"
        /\ outcome[d].message = "Usuario ya tiene el repositorio!"
        /\ io[d].creates = 0
        /\ Len(db.Repository) = 1

-----------------------------------------------------------------------------
\* The positions of the declared languages that the registry does not have.
MissingLanguages(r) ==
    {i \in DOMAIN r.languages : ~LanguageCheckIfExists(r.languages[i])}
FirstMissingLanguage(r) ==
    r.languages[CHOOSE i \in MissingLanguages(r) :
                    \A k \in MissingLanguages(r) : i <= k]

\* Call c passed validation, the upstream check and the ownership check.
PastOwnership(c) ==
    /\ pc[c] \notin {"idle", "validate", "existsBackend", "userHasRepo"}
    /\ Validation(req[c]).error = ""
    /\ CheckIfExistsInBackend(req[c].name)
    /\ outcome[c] # UserHasRepoError

\* C11: a createRepository call that declares a language the registry does
\* not have never goes past the language check (no repoInfo call, no create),
\* and once it has ended past the earlier checks its result is the NOT_FOUND
\* error that names the first such language in declared order.
C11_FirstMissingLanguage ==
    \A c \in Calls :
        MissingLanguages(req[c]) # {} =>
            /\ pc[c] \in PreCheckPcs \cup {"idle", "done"}
            /\ io[c].repoInfo = 0 /\ io[c].creates = 0
            /\ (Done(c) /\ PastOwnership(c)) =>
                   outcome[c] = ServiceError("Lenguaje no existe en la base de datos!",
                                             FirstMissingLanguage(req[c]),
                                             NOT_FOUND)

\* A call that declared two different missing languages has ended, and one
\* whose missing language came after an existing one.
C11_Witness ==
    \E c \in Calls :
        /\ Done(c) /\ PastOwnership(c)
        /\ Cardinality(MissingLanguages(req[c])) = 2
        /\ req[c].languages[1] # req[c].languages[2]
        /\ outcome[c].subject = req[c].languages[1]

-----------------------------------------------------------------------------
\* The field of the first input check of request r that fails, in the order
\* name, actor identity, description, language list; "" when all pass.
FirstFailingCheck(r) ==
    IF ValidateRepoName(r.name).error # "" THEN "name"
    ELSE IF ValidateToken(r.token).error # "" THEN "token"
    ELSE IF ValidateDescription(r.description).error # "" THEN "description"
    ELSE IF ValidateLanguages(r.languages).error # "" THEN "languages"
    ELSE ""

\* How many of the four input checks of request r fail.
FailingChecks(r) ==
    Cardinality({k \in 1..4 :
        <<ValidateRepoName(r.name), ValidateToken(r.token),
          ValidateDescription(r.description),
          ValidateLanguages(r.languages)>>[k].error # ""})

\* C12: a createRepository call of which an input check fails ends at
\* validation with the BAD_REQUEST error of the first failing check in the
\* order name, actor identity, description, language list, and creates
\* nothing; a call whose checks all pass has the user its token resolves to
\* as owner, and that user is the user_owner of the Repository row it creates.
C12_FirstFailingCheck ==
    \A c \in Calls :
        pc[c] \notin {"idle", "validate"} =>
            IF FirstFailingCheck(req[c]) # ""
            THEN /\ Done(c)
                 /\ outcome[c] = ServiceError(FirstFailingCheck(req[c]), "",
                                              BAD_REQUEST)
                 /\ io[c].creates = 0
            ELSE /\ loc[c].owner = TokenUsers[req[c].token]
                 /\ RepoOf(c) # 0 =>
                        /\ loc[c].repoSaved.user_owner = TokenUsers[req[c].token]
                        /\ loc[c].repoSaved \in Rows(db, "Repository")

\* A call of which the actor identity, the description and the language list
\* all fail, the name passing, has ended.
C12_Witness ==
    \E c \in Calls :
        /\ Done(c)
        /\ FailingChecks(req[c]) = 3
        /\ FirstFailingCheck(req[c]) = "token"
        /\ outcome[c].type = BAD_REQUEST

-----------------------------------------------------------------------------
\* The extracted modifications whose commit hash no extracted commit has.
UnknownCommitMods(x) ==
    {i \in DOMAIN x.modifications :
        \A e \in Range(x.commits) : e.hash # x.modifications[i].commit}

\* C13: a createRepository call whose extraction holds a modification of a
\* commit hash that no extracted commit has ends (no store call rejecting)
\* with a NOT_FOUND error value, and every Modification row references a
\* Commit row of the same repository as its File.
C13_UnknownCommitIsNotFound ==
    \A c \in Calls :
        (RanCascade(c) /\ UnknownCommitMods(loc[c].x) # {}) =>
            /\ outcome[c].kind = "error"
            /\ outcome[c].type = NOT_FOUND
            /\ \A m \in Rows(db, "Modification") :
                   \E k \in Rows(db, "Commit"), f \in Rows(db, "File") :
                       k.id = m.commit /\ f.id = m.file /\ k.repo = f.repo

-----------------------------------------------------------------------------
\* Two entries of the extracted files list share a path.
HasDuplicatePath(x) ==
    \E i, k \in DOMAIN x.files : i # k /\ x.files[i].path = x.files[k].path

\* C14: a createRepository call whose extracted files list holds two entries
\* of one path ends with an unexpected failure (an exception), never with
\* success, and the repository never has two File rows of that path.
C14_DuplicatePathFails ==
    \A c \in Calls :
        (io[c].repoInfo = 1 /\ HasDuplicatePath(loc[c].x)) =>
            /\ Done(c) => outcome[c].kind = "threw"
            /\ \A f, g \in ListedFiles(c) : f.path = g.path => f = g

-----------------------------------------------------------------------------
\* Modification row m of repository R is the row of extracted modification e:
\* its type, the Commit of R that has its hash, a File of R that has its path.
RowOfModification(R, m, e) ==
    /\ m.type = e.type
    /\ \E k \in CommitsOfRepo(R) : k.id = m.commit /\ k.hash = e.commit
    /\ \E f \in FilesOfRepo(R) : f.id = m.file /\ f.path = e.file

\* C15: after a createRepository call that returned success on an extraction
\* without a repeated file path (commit hashes are unique in every explored
\* extraction), the Modification rows of the repository and the extracted
\* modifications correspond one to one: some bijection sends every extracted
\* modification to a row with its type, the Commit of its hash and a File of
\* its path.
C15_ModificationsOneToOne ==
    \A c \in Calls :
        (Succeeded(c) /\ ~HasDuplicatePath(loc[c].x)) =>
            LET mods == loc[c].x.modifications
                rows == ModificationsOfRepo(RepoOf(c))
            IN  /\ Cardinality(rows) = Len(mods)
                /\ \E pi \in [DOMAIN mods -> rows] :
                       /\ \A i, k \in DOMAIN mods : pi[i] = pi[k] => i = k
                       /\ \A i \in DOMAIN mods :
                              RowOfModification(RepoOf(c), pi[i], mods[i])

\* A successful import of distinct paths in which one listed file has two
\* modifications.
C15_Witness ==
    \E c \in Calls :
        /\ Succeeded(c)
        /\ ~HasDuplicatePath(loc[c].x)
        /\ \E f \in ListedFiles(c) :
               Cardinality({m \in ModificationsOfRepo(RepoOf(c)) :
                               m.file = f.id}) >= 2

-----------------------------------------------------------------------------
\* The number of rows of store d.
RowCount(d) ==
    Len(d.Repository) + Len(d.Repository_Language) + Len(d.Contributor)
    + Len(d.Branch) + Len(d.Commit) + Len(d.Commit_Branch) + Len(d.File)
    + Len(d.Modification)

\* Every row that references another has that row in the store.
ReferencesExist ==
    /\ \A r \in Rows(db, "Repository_Language") \cup Rows(db, "Contributor")
               \cup Rows(db, "Branch") \cup Rows(db, "Commit")
               \cup Rows(db, "File") :
           \E R \in Rows(db, "Repository") : R.id = r.repo
    /\ \A k \in Rows(db, "Commit") :
           \E a \in Rows(db, "Contributor") : a.id = k.author
    /\ \A r \in Rows(db, "Commit_Branch") :
           /\ \E k \in Rows(db, "Commit") : k.id = r.commit
           /\ \E b \in Rows(db, "Branch") : b.id = r.branch
    /\ \A m \in Rows(db, "Modification") :
           /\ \E k \in Rows(db, "Commit") : k.id = m.commit
           /\ \E f \in Rows(db, "File") : f.id = m.file

\* A step creates one row at most and leaves the rows there are as they are.
OneRowAtATime ==
    /\ RowCount(db') <= RowCount(db) + 1
    /\ \A t \in Tables :
           /\ Len(db'[t]) >= Len(db[t])
           /\ SubSeq(db'[t], 1, Len(db[t])) = db[t]

\* A step that creates a Contributor or a Branch of a repository is taken
\* while the repository has no Commit.
HistoryBeforeCommits ==
    \A R \in 1..Len(db.Repository) :
        (\/ ContributorsOfRepo(R)' # ContributorsOfRepo(R)
         \/ BranchesOfRepo(R)' # BranchesOfRepo(R)) =>
            (CommitsOfRepo(R) = {} /\ CommitsOfRepo(R)' = {})

\* C16: rows are created one per step and never removed; at every moment
\* every row's Repository, a Commit's author Contributor, a Commit_Branch's
\* Commit and Branch and a Modification's Commit and File are in the store
\* (so each was created in an earlier step than the row that references it);
\* and no Contributor or Branch of a repository is created once the
\* repository has a Commit.
C16_CreatedAfterReferenced ==
    /\ []ReferencesExist
    /\ [][OneRowAtATime /\ HistoryBeforeCommits]_vars

\* A successful import of two contributors, two branches and two commits,
\* with Commit_Branch rows and a Modification.
C16_Witness ==
    \E c \in Calls :
        /\ Succeeded(c)
        /\ Len(db.Contributor) = 2 /\ Len(db.Branch) = 2 /\ Len(db.Commit) = 2
        /\ Len(db.Commit_Branch) >= 2
        /\ Len(db.Modification) >= 1

-----------------------------------------------------------------------------
\* C17: after a createRepository call that returned success, every Commit of
\* the repository has an author reference that is not null and is the id of a
\* Contributor row the call created for that repository, whose name is the
\* author name of the extracted commit of the same hash.
C17_CommitAuthorIsItsContributor ==
    \A c \in Calls :
        Succeeded(c) =>
            \A k \in CommitsOfRepo(RepoOf(c)) :
                /\ k.author # 0
                /\ \E a \in ContributorsOfRepo(RepoOf(c)) :
                       /\ a.id = k.author
                       /\ a \in Range(loc[c].contributorsSaved)
                       /\ \E e \in Range(loc[c].x.commits) :
                              e.hash = k.hash /\ e.author = a.name

\* A successful import of two commits by two different authors.
C17_Witness ==
    \E c \in Calls :
        /\ Succeeded(c)
        /\ \E k, n \in CommitsOfRepo(RepoOf(c)) : k.author # n.author
        /\ Len(loc[c].x.contributors) = 2

-----------------------------------------------------------------------------
\* The author names of the extracted commits.
CommitAuthors(x) == {e.author : e \in Range(x.commits)}

\* C18: after a createRepository call that returned success, the names of the
\* Contributor rows of the repository are exactly the author names of the
\* extracted commits, and no two Contributor rows of the repository have the
\* same name.
C18_OneContributorPerAuthor ==
    \A c \in Calls :
        Succeeded(c) =>
            /\ {a.name : a \in ContributorsOfRepo(RepoOf(c))}
                   = CommitAuthors(loc[c].x)
            /\ \A a, b \in ContributorsOfRepo(RepoOf(c)) :
                   a.name = b.name => a = b

-----------------------------------------------------------------------------
\* C19: every File row made from the extracted files list whose name has no
\* '.' has no language.
C19_NoExtensionNoLanguage ==
    \A c \in Calls :
        \A f \in ListedFiles(c) :
            (\A i \in DOMAIN f.name : f.name[i] # ".") =>
                f.language = NoLanguage

-----------------------------------------------------------------------------
\* The row of table t with id n.
RowById(t, n) == CHOOSE r \in Rows(db, t) : r.id = n

\* The rows call c saved and kept in its local lists are rows of the
\* repository it created.
OwnRowsOf(c) ==
    /\ \A r \in Range(loc[c].contributorsSaved) \cup Range(loc[c].branchesSaved)
               \cup Range(loc[c].commitsSaved) \cup Range(loc[c].filesSaved) :
           r.repo = RepoOf(c)
    /\ \A m \in Range(loc[c].modificationsSaved) :
           RowById("Commit", m.commit).repo = RepoOf(c)

\* Every reference of a row stays inside one repository.
ReferencesWithinRepo ==
    /\ \A k \in Rows(db, "Commit") :
           RowById("Contributor", k.author).repo = k.repo
    /\ \A r \in Rows(db, "Commit_Branch") :
           RowById("Commit", r.commit).repo = RowById("Branch", r.branch).repo
    /\ \A m \in Rows(db, "Modification") :
           RowById("Commit", m.commit).repo = RowById("File", m.file).repo

\* C20: of two createRepository calls for different (name, owner) pairs,
\* however their awaits interleave, each creates its own Repository row, the
\* rows each saved belong to its own repository, and every Commit,
\* Commit_Branch and Modification references rows of its own repository only.
C20_CallsAreIsolated ==
    \A c, d \in Calls :
        (c # d /\ RepoOf(c) # 0 /\ RepoOf(d) # 0 /\ ~SamePair(c, d)) =>
            /\ RepoOf(c) # RepoOf(d)
            /\ OwnRowsOf(c) /\ OwnRowsOf(d)
            /\ ReferencesWithinRepo

\* Two calls for different pairs have both returned success, their saves
\* interleaved: the call that saved its Repository first saved its
\* Contributor and its File second.
C20_Witness ==
    \E c, d \in Calls :
        /\ ~SamePair(c, d)
        /\ Succeeded(c) /\ Succeeded(d)
        /\ RepoOf(c) < RepoOf(d)
        /\ loc[d].contributorsSaved[1].id < loc[c].contributorsSaved[1].id
        /\ loc[d].filesSaved[1].id < loc[c].filesSaved[1].id
        /\ Len(db.Modification) = 4

-----------------------------------------------------------------------------
\* Call c is past every pre-check: at the metadata source or in the cascade.
PastPreChecks(c) == pc[c] \notin PreCheckPcs \cup {"idle", "done"}

\* At every moment: the metadata source was asked once at most; a call that
\* asked it, or is about to, has a request that passes validation, names an
\* upstream repository and declares existing languages only; a call that
\* created a row asked it before; a call that returned an error value never
\* asked it.
SourceAfterPreChecks ==
    \A c \in Calls :
        /\ io[c].repoInfo <= 1
        /\ (io[c].repoInfo = 1 \/ PastPreChecks(c)) =>
               /\ Validation(req[c]).error = ""
               /\ CheckIfExistsInBackend(req[c].name)
               /\ MissingLanguages(req[c]) = {}
               /\ outcome[c].kind # "error"
        /\ io[c].creates > 0 => io[c].repoInfo = 1
        /\ outcome[c].kind = "error" => io[c].repoInfo = 0

\* The pre-checks are passed in order, each only when it holds, and the
\* metadata source is asked in the step that follows the last of them, by a
\* call that has created nothing.
PreChecksInOrder ==
    \A c \in Calls :
        /\ (pc[c] = "validate" /\ pc'[c] # "validate") =>
               pc'[c] \in {"existsBackend", "done"}
        /\ (pc[c] = "existsBackend" /\ pc'[c] # "existsBackend") =>
               pc'[c] \in {"userHasRepo", "done"}
        /\ (pc[c] = "userHasRepo" /\ pc'[c] # "userHasRepo") =>
               /\ pc'[c] \in {"checkLanguage", "repoInfo", "done"}
               /\ pc'[c] # "done" =>
                      ~CheckIfUserHasRepo(db, req[c].name, loc[c].owner)
        /\ (pc[c] = "checkLanguage" /\ Steps(c)) =>
               pc'[c] \in {"checkLanguage", "repoInfo", "done"}
        /\ io'[c].repoInfo # io[c].repoInfo =>
               /\ pc[c] = "repoInfo"
               /\ io[c].creates = 0 /\ io'[c].creates = 0
               /\ pc'[c] = "saveRepository"

\* C21: in every createRepository call the metadata source is asked once at
\* most, only after validation, the upstream check, the ownership check and
\* the language checks have passed in that order, and before the first store
\* create; a call that fails a pre-check never asks it.
C21_SourceOnceAfterPreChecks ==
    /\ []SourceAfterPreChecks
    /\ [][PreChecksInOrder]_vars

\* A call has asked the metadata source and created rows after it, while the
\* other call, stopped by the ownership check, never asked it.
C21_Witness ==
    \E c, d \in Calls :
        /\ io[c].repoInfo = 1 /\ io[c].creates > 1
        /\ outcome[d] = UserHasRepoError
        /\ io[d].repoInfo = 0

-----------------------------------------------------------------------------
(***************************************************************************)
(* UserService (services/user.service.js): deleteUser, changeUsername and *)
(* changePassword.  A call is a process c \in Calls as above; req[c] holds *)
(* its operation and arguments, the User table of db the user records.     *)
(***************************************************************************)

\* The error type the password mismatch names (lib/constants/errors.js).
FORBIDDEN == "FORBIDDEN"

\* Auth.encryptPassword(password): the hash that is stored, never the password.
EncryptPassword(password) == <<"hash", password>>

\* Auth.comparePassword(password, storedPassword).
ComparePassword(password, storedPassword) ==
    EncryptPassword(password) = storedPassword

\* The user records a run may start from: rows of id, username and password.
UserRow(id, username, password) ==
    [id |-> id, username |-> username, password |-> EncryptPassword(password)]
UserTables ==
    {<<UserRow("u1", "ann", "pw1")>>,
     <<UserRow("u1", "ann", "pw1"), UserRow("u2", "ben", "pw2")>>}

UserOps == {"deleteUser", "changeUsername", "changePassword"}

\* A call of UserService: `new` is newUsername or newPassword, "-" for deleteUser.
UserRequest(op, new, token, password) ==
    [op |-> op, new |-> new, token |-> token, password |-> password]

UserRequests ==
    {UserRequest("deleteUser", "-", t, pw) :
        t \in {"tok1", "tok2", "bad"}, pw \in {"pw1", "pw2", ""}}
    \cup {UserRequest("changeUsername", new, t, pw) :
            new \in {"zed", ""}, t \in {"tok1", "tok2", "bad"},
            pw \in {"pw1", "pw2", ""}}
    \cup {UserRequest("changePassword", new, t, pw) :
            new \in {"pw2", ""}, t \in {"tok1", "tok2", "bad"},
            pw \in {"pw1", "pw2", ""}}

\* User.validatePassword and User.validateUsername.
ValidatePassword(password) ==
    IF password = "" THEN Invalid("password") ELSE Valid("")
ValidateUsername(username) ==
    IF username = "" THEN Invalid("username") ELSE Valid("")

\* The locals of a UserService call.
UserLoc == [data |-> "", user |-> NoRow, encryptedPassword |-> <<>>]

InitUser ==
    /\ mode = "user"
    /\ \E users \in UserTables : db = [EmptyDb EXCEPT !.User = users]
    /\ pc = [c \in Calls |-> "idle"]
    /\ req = [c \in Calls |-> NoRequest]
    /\ loc = [c \in Calls |-> UserLoc]
    /\ outcome = [c \in Calls |-> NoOutcome]
    /\ io = [c \in Calls |-> NoIo]
    /\ after = [c \in Calls |-> {}]

\* Lines 28-31, 83-87 and 137-141: the validators in the order each
\* operation lists them.
UserValidation(r) ==
    ValidationHandler(
        CASE r.op = "deleteUser" ->
                 <<ValidateToken(r.token), ValidatePassword(r.password)>>
          [] r.op = "changeUsername" ->
                 <<ValidateToken(r.token), ValidateUsername(r.new),
                   ValidatePassword(r.password)>>
          [] r.op = "changePassword" ->
                 <<ValidateToken(r.token), ValidatePassword(r.new),
                   ValidatePassword(r.password)>>)

\* User.checkIfExistsById(id) and User.getById(id): NoRow for no such user.
UserExistsById(d, id) == \E u \in Rows(d, "User") : u.id = id
UserGetById(d, id) ==
    IF UserExistsById(d, id) THEN CHOOSE u \in Rows(d, "User") : u.id = id
    ELSE NoRow

\* User.delete(id), User.changeUsername(newUsername, id) and
\* User.changePassword(encryptedPassword, id): the User table after the write.
UserTableAfter(d, r, l) ==
    CASE r.op = "deleteUser" ->
             SelectSeq(d.User, LAMBDA u : u.id # l.data)
      [] r.op = "changeUsername" ->
             [i \in DOMAIN d.User |->
                 IF d.User[i].id = l.data
                 THEN [d.User[i] EXCEPT !.username = r.new] ELSE d.User[i]]
      [] r.op = "changePassword" ->
             [i \in DOMAIN d.User |->
                 IF d.User[i].id = l.data
                 THEN [d.User[i] EXCEPT !.password = l.encryptedPassword]
                 ELSE d.User[i]]

\* A UserService operation is called.
InvokeUser(c) ==
    /\ pc[c] = "idle"
    /\ mode = "user"
    /\ \E r \in UserRequests : req' = [req EXCEPT ![c] = r]
    /\ pc' = [pc EXCEPT ![c] = "userValidate"]
    /\ after' = [after EXCEPT ![c] = {d \in Calls : pc[d] = "done"}]
    /\ UNCHANGED <<db, loc, outcome, io, mode>>

\* Lines 28-39, 83-95 and 137-149.
ValidateUser(c) ==
    /\ pc[c] = "userValidate"
    /\ LET validation == UserValidation(req[c])
       IN  IF validation.error # ""
           THEN /\ Return(c, ServiceError(validation.error, "", BAD_REQUEST))
                /\ UNCHANGED loc
           ELSE /\ loc' = [loc EXCEPT ![c].data = validation.data]
                /\ pc' = [pc EXCEPT ![c] = "checkIfExistsById"]
                /\ UNCHANGED outcome
    /\ UNCHANGED <<db, req, io, after, mode>>

\* Lines 41-50, 97-106 and 151-160.
CheckIfExistsById(c) ==
    /\ pc[c] = "checkIfExistsById"
    /\ IF ~UserExistsById(db, loc[c].data)
       THEN Return(c, ServiceError("Usuario no existe!", "", NOT_FOUND))
       ELSE /\ pc' = [pc EXCEPT ![c] = "getById"]
            /\ UNCHANGED outcome
    /\ UNCHANGED <<db, req, loc, io, after, mode>>

\* Lines 52-54, 108 and 162, up to the await of comparePassword: `.password`
\* of the null that getById resolves to for a user deleted meanwhile throws.
GetById(c) ==
    /\ pc[c] = "getById"
    /\ LET user == UserGetById(db, loc[c].data)
       IN  IF user = NoRow
           THEN /\ Throw(c, "TypeError")
                /\ UNCHANGED loc
           ELSE /\ loc' = [loc EXCEPT ![c].user = user]
                /\ pc' = [pc EXCEPT ![c] = "comparePassword"]
                /\ UNCHANGED outcome
    /\ UNCHANGED <<db, req, io, after, mode>>

\* Line 4: the names user.service.js imports from lib/constants/errors.js.
UserServiceImports == {"BAD_REQUEST", "NOT_FOUND"}

\* Lines 58-65, 112-119 and 166-173: the result built on a password mismatch.
\* The object literal names FORBIDDEN; a name the module neither imports nor
\* declares is unresolvable, and evaluating it throws a ReferenceError.
PasswordMismatch(c) ==
    IF "FORBIDDEN" \in UserServiceImports
    THEN Return(c, ServiceError("Contrasena invalida!", "", FORBIDDEN))
    ELSE Throw(c, "ReferenceError")

\* Lines 56-65, 110-119 and 164-173.
MatchPassword(c) ==
    /\ pc[c] = "comparePassword"
    /\ IF ~ComparePassword(req[c].password, loc[c].user.password)
       THEN PasswordMismatch(c)
       ELSE /\ pc' = [pc EXCEPT ![c] =
                        IF req[c].op = "changePassword" THEN "encryptPassword"
                        ELSE "write"]
            /\ UNCHANGED outcome
    /\ UNCHANGED <<db, req, loc, io, after, mode>>

\* Line 175.
EncryptNewPassword(c) ==
    /\ pc[c] = "encryptPassword"
    /\ loc' = [loc EXCEPT ![c].encryptedPassword = EncryptPassword(req[c].new)]
    /\ pc' = [pc EXCEPT ![c] = "write"]
    /\ UNCHANGED <<db, req, outcome, io, after, mode>>

\* Lines 67-72, 121-126 and 177-182: the write and the success result.
WriteUser(c) ==
    /\ pc[c] = "write"
    /\ db' = [db EXCEPT !.User = UserTableAfter(db, req[c], loc[c])]
    /\ Return(c, Success)
    /\ Created(c)
    /\ UNCHANGED <<req, loc, after, mode>>

NextUser ==
    \E c \in Calls :
        \/ InvokeUser(c)
        \/ ValidateUser(c)
        \/ CheckIfExistsById(c)
        \/ GetById(c)
        \/ MatchPassword(c)
        \/ EncryptNewPassword(c)
        \/ WriteUser(c)

\* Two UserService calls whose awaits interleave.
SpecUser == InitUser /\ [][NextUser]_vars

-----------------------------------------------------------------------------
\* Call c, with a valid token of an existing user, read that user's record
\* and its password argument does not match the stored password.
WrongPassword(c) ==
    /\ mode = "user"
    /\ loc[c].user # NoRow
    /\ ~ComparePassword(req[c].password, loc[c].user.password)

\* C22: a deleteUser, changeUsername or changePassword call with a valid
\* token of an existing user and a password that does not match the stored
\* one ends with a failure result value of type FORBIDDEN, not with an
\* exception, and writes nothing to the user records.
C22_WrongPasswordIsForbidden ==
    \A c \in Calls :
        (WrongPassword(c) /\ Done(c)) =>
            /\ outcome[c].kind = "error"
            /\ outcome[c].type = FORBIDDEN
            /\ io[c].creates = 0

====
